---- MODULE Spec2Model ----
(***************************************************************************)
(* Model of the Markdown-to-notebook converter                             *)
(* (src/src/library_exploration/convert_to_notebook.py).                   *)
(*                                                                         *)
(* Text is modelled at character level: a string is a sequence of          *)
(* one-character strings, offsets are 0-based as in Python (the character  *)
(* at offset i is s[i+1]).  A notebook cell is a record holding cell_type, *)
(* the metadata triple and source, a sequence of strings.                  *)
(***************************************************************************)
EXTENDS Integers, Sequences, FiniteSets, TLC

\* Bounds of the model: the number of tokens of a free-form document, of the
\* body of a single-block document, and of each body of a two-block document;
\* the number of pieces of a document that main converts; the number of
\* lines in the body of a block that the rewriter sees; the number of blocks
\* of a document given to the syntax validator, and the number of times the
\* validator is run on it; the number of cells of a notebook given to the
\* execution validator; the number of pieces of a document of well-formed
\* fenced blocks.
MaxLen == 7
MaxBody == 3
MaxPairBody == 1
MaxUnits == 3
MaxRewrite == 2
MaxSyntaxBlocks == 3
MaxRuns == 2
MaxCells == 3
MaxFenced == 3

----------------------------------------------------------------------------
\* The backtick, which a TLA+ string cannot hold, is written BT.
BT == "BACKTICK"

\* String literals of the source, as character sequences.
FENCE == <<BT, BT, BT>>
README == <<"R", "E", "A", "D", "M", "E", ".", "m", "d">>
s_python == <<"p", "y", "t", "h", "o", "n">>
s_py == <<"p", "y">>
s_bash == <<"b", "a", "s", "h">>
s_shell == <<"s", "h", "e", "l", "l">>
s_sh == <<"s", "h">>
s_zsh == <<"z", "s", "h">>
s_prompt == <<">", ">", ">">>
s_os_dot == <<"o", "s", ".">>
s_import_os == <<"i", "m", "p", "o", "r", "t", " ", "o", "s">>
s_sys_dot == <<"s", "y", "s", ".">>
s_import_sys == <<"i", "m", "p", "o", "r", "t", " ", "s", "y", "s">>
s_requests_dot == <<"r", "e", "q", "u", "e", "s", "t", "s", ".">>
s_import_requests == <<"i", "m", "p", "o", "r", "t", " ", "r", "e", "q", "u", "e", "s", "t", "s">>
s_inspect_dot == <<"i", "n", "s", "p", "e", "c", "t", ".">>
s_import_inspect == <<"i", "m", "p", "o", "r", "t", " ", "i", "n", "s", "p", "e", "c", "t">>
s_obj_dot == <<"o", "b", "j", ".">>
s_obj_eq_sp == <<"o", "b", "j", " ", "=">>
s_obj_eq == <<"o", "b", "j", "=">>
s_obj_line == <<"o", "b", "j", " ", "=", " ", "r", "e", "q", "u", "e", "s", "t", "s", " ", " ", "#", " ", "E", "x", "a", "m", "p", "l", "e", " ", "o", "b", "j", "e", "c", "t", " ", "f", "o", "r", " ", "i", "n", "s", "p", "e", "c", "t", "i", "o", "n", "\n">>
s_pkg_resources == <<"p", "k", "g", "_", "r", "e", "s", "o", "u", "r", "c", "e", "s">>
s_pkg_resources_dot == <<"p", "k", "g", "_", "r", "e", "s", "o", "u", "r", "c", "e", "s", ".">>
s_import_pkg_resources == <<"i", "m", "p", "o", "r", "t", " ", "p", "k", "g", "_", "r", "e", "s", "o", "u", "r", "c", "e", "s">>
s_try == <<"t", "r", "y", ":", "\n">>
s_guarded_import == <<" ", " ", " ", " ", "i", "m", "p", "o", "r", "t", " ", "p", "k", "g", "_", "r", "e", "s", "o", "u", "r", "c", "e", "s", "\n">>
s_except == <<"e", "x", "c", "e", "p", "t", " ", "I", "m", "p", "o", "r", "t", "E", "r", "r", "o", "r", ":", "\n">>
s_not_available == <<" ", " ", " ", " ", "p", "r", "i", "n", "t", "(", "\"", "p", "k", "g", "_", "r", "e", "s", "o", "u", "r", "c", "e", "s", " ", "n", "o", "t", " ", "a", "v", "a", "i", "l", "a", "b", "l", "e", " ", "-", " ", "s", "k", "i", "p", "p", "i", "n", "g", " ", "p", "a", "c", "k", "a", "g", "e", " ", "i", "n", "t", "r", "o", "s", "p", "e", "c", "t", "i", "o", "n", "\"", ")", "\n">>
s_pkg_none == <<" ", " ", " ", " ", "p", "k", "g", "_", "r", "e", "s", "o", "u", "r", "c", "e", "s", " ", "=", " ", "N", "o", "n", "e", "\n">>
s_if_pkg == <<"i", "f", " ", "p", "k", "g", "_", "r", "e", "s", "o", "u", "r", "c", "e", "s", " ", "i", "s", " ", "n", "o", "t", " ", "N", "o", "n", "e", ":", "\n">>
s_indent == <<" ", " ", " ", " ">>
s_print_call == <<"p", "r", "i", "n", "t", "(">>
s_dist_dot == <<"d", "i", "s", "t", ".">>
s_entry_points == <<"e", "n", "t", "r", "y", "_", "p", "o", "i", "n", "t", "s">>
s_code_anchor_open == <<"#", " ", "[", "s", "o", "u", "r", "c", "e", ":">>
s_code_anchor_close == <<"]", "\n">>
s_md_anchor_open == <<"<", "!", "-", "-", " ", "s", "o", "u", "r", "c", "e", ":">>
s_md_anchor_close == <<" ", "-", "-", ">", "\n">>
s_bash_magic == <<"%", "%", "b", "a", "s", "h">>
s_bash_magic_nl == <<"%", "%", "b", "a", "s", "h", "\n">>
s_fence_python == <<BT, BT, BT, "p", "y", "t", "h", "o", "n", "\n">>
s_fence_close == <<"\n", BT, BT, BT>>
s_pip == <<"p", "i", "p">>
s_git == <<"g", "i", "t">>
s_install_comment == <<"#", " ", "I", "n", "s", "t", "a", "l", "l", " ", "P", "y", "t", "h", "o", "n", " ", "p", "a", "c", "k", "a", "g", "e", "\n">>
s_git_comment == <<"#", " ", "G", "i", "t", " ", "c", "o", "m", "m", "a", "n", "d", "\n">>
s_python_comment == <<"#", " ", "R", "u", "n", " ", "P", "y", "t", "h", "o", "n", " ", "s", "c", "r", "i", "p", "t", "\n">>
s_shell_comment == <<"#", " ", "S", "h", "e", "l", "l", " ", "c", "o", "m", "m", "a", "n", "d", "\n">>
s_note == <<"\n", "#", " ", "N", "o", "t", "e", ":", " ", "I", "f", " ", "t", "h", "i", "s", " ", "c", "o", "m", "m", "a", "n", "d", " ", "f", "a", "i", "l", "s", ",", " ", "y", "o", "u", " ", "m", "a", "y", " ", "n", "e", "e", "d", " ", "t", "o", " ", "i", "n", "s", "t", "a", "l", "l", " ", "d", "e", "p", "e", "n", "d", "e", "n", "c", "i", "e", "s", " ", "o", "r", " ", "a", "d", "j", "u", "s", "t", " ", "p", "a", "t", "h", "s">>
s_text == <<"t", "e", "x", "t">>

----------------------------------------------------------------------------
\* Python string primitives.

Min(S) == CHOOSE x \in S : \A y \in S : x <= y
Max(S) == CHOOSE x \in S : \A y \in S : x >= y

LowerLetters == <<"a","b","c","d","e","f","g","h","i","j","k","l","m",
                  "n","o","p","q","r","s","t","u","v","w","x","y","z">>
UpperLetters == <<"A","B","C","D","E","F","G","H","I","J","K","L","M",
                  "N","O","P","Q","R","S","T","U","V","W","X","Y","Z">>
DigitChars == <<"0","1","2","3","4","5","6","7","8","9">>

Range(f) == {f[i] : i \in DOMAIN f}

\* \w of the regular expression: letters, digits and the underscore.
WordChars == Range(LowerLetters) \cup Range(UpperLetters) \cup Range(DigitChars) \cup {"_"}
IsWord(c) == c \in WordChars

\* The characters str.strip() removes.
SpaceChars == {" ", "\n", "\t", "\r"}
IsSpace(c) == c \in SpaceChars

\* s[a:b] for 0 <= a, b <= len(s).
Slice(s, a, b) == SubSeq(s, a + 1, b)

\* str.lower(), character by character.
UpperChars == Range(UpperLetters)
LowerChar(c) ==
  IF c \in UpperChars
  THEN LowerLetters[CHOOSE i \in 1..26 : UpperLetters[i] = c]
  ELSE c
Lower(s) == [i \in 1..Len(s) |-> LowerChar(s[i])]

\* str(n) for n >= 0.
RECURSIVE Str(_)
Str(n) == IF n < 10 THEN <<DigitChars[n + 1]>>
          ELSE Str(n \div 10) \o <<DigitChars[(n % 10) + 1]>>

\* s.startswith(p), and s.startswith(p, i).
StartsWithAt(s, p, i) == i + Len(p) <= Len(s) /\ SubSeq(s, i + 1, i + Len(p)) = p
StartsWith(s, p) == StartsWithAt(s, p, 0)

\* p in s.
Contains(s, p) == \E i \in 0..Len(s) : StartsWithAt(s, p, i)

\* s[:n].count('\n').
CountNewlines(s, n) == Cardinality({k \in 1..n : s[k] = "\n"})

\* s.strip().
Strip(s) ==
  LET keep == {k \in 1..Len(s) : ~IsSpace(s[k])}
  IN IF keep = {} THEN <<>> ELSE SubSeq(s, Min(keep), Max(keep))

\* s.split('\n').
RECURSIVE Split(_)
Split(s) ==
  LET nl == {k \in 1..Len(s) : s[k] = "\n"}
  IN IF nl = {} THEN <<s>>
     ELSE <<SubSeq(s, 1, Min(nl) - 1)>> \o Split(SubSeq(s, Min(nl) + 1, Len(s)))

\* [line + '\n' for line in lines].
WithNewlines(lines) == [i \in 1..Len(lines) |-> Append(lines[i], "\n")]

\* ''.join(parts).
RECURSIVE Join(_)
Join(parts) == IF parts = <<>> THEN <<>> ELSE Head(parts) \o Join(Tail(parts))

----------------------------------------------------------------------------
\* The fenced-block pattern  ```(\w+)?\n(.*?)```  under re.DOTALL.

\* End offset of the longest run of \w characters starting at offset i.
WordEnd(s, i) ==
  LET stops == {j \in i..Len(s) : j = Len(s) \/ ~IsWord(s[j + 1])}
  IN Min(stops)

\* Offsets at or after i where a triple backtick starts.
FencesFrom(s, i) == {k \in i..Len(s) : StartsWithAt(s, FENCE, k)}

\* Whether the pattern matches with its first character at offset i: an
\* opening fence, the (greedy) optional word, a newline, and the first
\* closing fence after it (the body is non-greedy).
MatchesAt(s, i) ==
  /\ StartsWithAt(s, FENCE, i)
  /\ LET w == WordEnd(s, i + 3)
     IN /\ w < Len(s)
        /\ s[w + 1] = "\n"
        /\ FencesFrom(s, w + 1) # {}

\* Mutant: the body is greedy, the last closing fence wins.
MatchAt_Greedy(s, i) ==
  LET w == WordEnd(s, i + 3)
      close == Max(FencesFrom(s, w + 1))
  IN [start |-> i, end |-> close + 3,
      language |-> Slice(s, i + 3, w),
      body |-> Slice(s, w + 1, close)]

\* The match object of a match at offset i: start(), end(), group(1) or '',
\* group(2).
MatchAt(s, i) ==
  LET w == WordEnd(s, i + 3)
      close == Min(FencesFrom(s, w + 1))
  IN [start |-> i, end |-> close + 3,
      language |-> Slice(s, i + 3, w),
      body |-> Slice(s, w + 1, close)]

\* re.finditer resumes at the end of the previous match: the offsets at or
\* after pos where the pattern matches.
code_block_pattern(s, pos) == {i \in pos..Len(s) : MatchesAt(s, i)}

----------------------------------------------------------------------------
\* parse_markdown_file: the cells it builds.

\* args.input, by default README.md.
file_path == README

\* f"{file_path}:{line}".
Anchor(line) == file_path \o <<":">> \o Str(line)

Metadata(line) ==
  [source_file |-> file_path, source_line |-> line, source_anchor |-> Anchor(line)]

\* f'<!-- source:{anchor} -->\n' and f'# [source:{anchor}]\n'.
MdAnchorLine(line) == s_md_anchor_open \o Anchor(line) \o s_md_anchor_close
CodeAnchorLine(line) == s_code_anchor_open \o Anchor(line) \o s_code_anchor_close

\* Mutant: the line is counted inside the span, not from the start of the
\* document.
md_cell_RelativeLine(s, from, to) ==
  LET markdown_content == Strip(Slice(s, from, to))
      md_start_line == CountNewlines(Slice(s, from, to), to - from) + 1
  IN [cell_type |-> "markdown",
      metadata |-> Metadata(md_start_line),
      source |-> <<MdAnchorLine(md_start_line)>> \o WithNewlines(Split(markdown_content))]

\* Mutant: the line is that of the end of the span.
md_cell_LineAtEnd(s, from, to) ==
  LET markdown_content == Strip(Slice(s, from, to))
      md_start_line == CountNewlines(s, to) + 1
  IN [cell_type |-> "markdown",
      metadata |-> Metadata(md_start_line),
      source |-> <<MdAnchorLine(md_start_line)>> \o WithNewlines(Split(markdown_content))]

\* The markdown cell of a prose span: the text between offset from and
\* offset to, stripped; its line is that of offset from.
md_cell(s, from, to) ==
  LET markdown_content == Strip(Slice(s, from, to))
      md_start_line == CountNewlines(s, from) + 1
  IN [cell_type |-> "markdown",
      metadata |-> Metadata(md_start_line),
      source |-> <<MdAnchorLine(md_start_line)>> \o WithNewlines(Split(markdown_content))]

\* The import lines the rewriter puts in front of a Python block.
\* Mutant: an import is synthesized wherever the module is used.
import_lines_UsageOnly(code_content) ==
  (IF Contains(code_content, s_os_dot) THEN <<Append(s_import_os, "\n")>> ELSE <<>>)
  \o (IF Contains(code_content, s_sys_dot) THEN <<Append(s_import_sys, "\n")>> ELSE <<>>)
  \o (IF Contains(code_content, s_requests_dot)
      THEN <<Append(s_import_requests, "\n")>> ELSE <<>>)
  \o (IF Contains(code_content, s_inspect_dot)
      THEN <<Append(s_import_inspect, "\n")>> ELSE <<>>)
  \o (IF /\ Contains(code_content, s_obj_dot)
         /\ ~Contains(code_content, s_obj_eq_sp)
         /\ ~Contains(code_content, s_obj_eq)
      THEN <<s_obj_line>> ELSE <<>>)
  \o (IF Contains(code_content, s_pkg_resources)
      THEN <<s_try, s_guarded_import, s_except, s_not_available, s_pkg_none>>
      ELSE <<>>)

import_lines(code_content) ==
  (IF Contains(code_content, s_os_dot) /\ ~Contains(code_content, s_import_os)
   THEN <<Append(s_import_os, "\n")>> ELSE <<>>)
  \o (IF Contains(code_content, s_sys_dot) /\ ~Contains(code_content, s_import_sys)
      THEN <<Append(s_import_sys, "\n")>> ELSE <<>>)
  \o (IF Contains(code_content, s_requests_dot) /\ ~Contains(code_content, s_import_requests)
      THEN <<Append(s_import_requests, "\n")>> ELSE <<>>)
  \o (IF Contains(code_content, s_inspect_dot) /\ ~Contains(code_content, s_import_inspect)
      THEN <<Append(s_import_inspect, "\n")>> ELSE <<>>)
  \o (IF /\ Contains(code_content, s_obj_dot)
         /\ ~Contains(code_content, s_obj_eq_sp)
         /\ ~Contains(code_content, s_obj_eq)
      THEN <<s_obj_line>> ELSE <<>>)
  \o (IF Contains(code_content, s_pkg_resources)
      THEN <<s_try, s_guarded_import, s_except, s_not_available, s_pkg_none>>
      ELSE <<>>)

\* The loop that guards the lines using pkg_resources; in_pkg_block is the
\* loop's flag.
RECURSIVE modified_lines(_, _)
modified_lines(lines, in_pkg_block) ==
  IF lines = <<>> THEN <<>>
  ELSE LET line == Head(lines)
           guarded == <<s_if_pkg, s_indent \o line \o <<"\n">> >>
       IN IF Contains(line, s_pkg_resources_dot)
          THEN guarded \o modified_lines(Tail(lines), TRUE)
          ELSE IF StartsWith(Strip(line), s_import_pkg_resources)
          THEN modified_lines(Tail(lines), in_pkg_block)
          ELSE IF /\ in_pkg_block
                  /\ \/ Contains(line, s_print_call)
                     \/ Contains(line, s_dist_dot)
                     \/ Contains(line, s_entry_points)
          THEN guarded \o modified_lines(Tail(lines), FALSE)
          ELSE <<Append(line, "\n")>> \o modified_lines(Tail(lines), FALSE)

\* The tests of the if / elif chain on a fenced block.
IsPythonTag(language) == Lower(language) \in {s_python, s_py}
HasPrompt(code_content) == Contains(code_content, s_prompt)
\* Mutant: the $ heuristic is forgotten.
IsShellBlock_TagOnly(language, code_content) ==
  Lower(language) \in {s_bash, s_shell, s_sh, s_zsh}
IsShellBlock(language, code_content) ==
  \/ Lower(language) \in {s_bash, s_shell, s_sh, s_zsh}
  \/ Contains(code_content, <<"$">>)

\* The fence tag written into a Python block kept as markdown, and into any
\* other block kept as markdown.
TranscriptFence(language) == s_fence_python
PlainFence(language) == FENCE \o language \o <<"\n">>

\* The cell of a Python block: a transcript is kept as markdown, anything
\* else becomes a code cell with the rewriter's lines.
python_cell(start_line, language, code_content) ==
  IF HasPrompt(code_content)
  THEN [cell_type |-> "markdown",
        metadata |-> Metadata(start_line),
        source |-> <<MdAnchorLine(start_line),
                     TranscriptFence(language) \o code_content \o s_fence_close>>]
  ELSE [cell_type |-> "code",
        metadata |-> Metadata(start_line),
        source |-> <<CodeAnchorLine(start_line)>> \o import_lines(code_content)
                   \o (IF Contains(code_content, s_pkg_resources)
                       THEN modified_lines(Split(code_content), FALSE)
                       ELSE WithNewlines(Split(code_content)))]

\* Mutant: the shell cell without its anchor line.
shell_cell_NoAnchorLine(start_line, code_content) ==
  [cell_type |-> "code",
   metadata |-> Metadata(start_line),
   source |-> <<s_bash_magic_nl>> \o WithNewlines(Split(code_content))]

shell_cell(start_line, code_content) ==
  [cell_type |-> "code",
   metadata |-> Metadata(start_line),
   source |-> <<CodeAnchorLine(start_line), s_bash_magic_nl>>
              \o WithNewlines(Split(code_content))]

other_cell(start_line, language, code_content) ==
  [cell_type |-> "markdown",
   metadata |-> Metadata(start_line),
   source |-> <<MdAnchorLine(start_line),
                PlainFence(language) \o code_content \o s_fence_close>>]

\* The cell of one fenced block (the if / elif / else chain).
block_cell(start_line, language, code_content) ==
  IF IsPythonTag(language) THEN python_cell(start_line, language, code_content)
  ELSE IF IsShellBlock(language, code_content) THEN shell_cell(start_line, code_content)
  ELSE other_cell(start_line, language, code_content)

\* Mutant: the transcript branch builds its cell and does not append it.
block_cells_TranscriptNotAppended(start_line, language, code_content) ==
  IF IsPythonTag(language) /\ HasPrompt(code_content) THEN <<>>
  ELSE <<block_cell(start_line, language, code_content)>>

\* The cells one fenced block yields.
block_cells(start_line, language, code_content) ==
  <<block_cell(start_line, language, code_content)>>

\* Mutant: the line number is 0-based.
start_line_of_ZeroBased(s, start) == CountNewlines(s, start)

\* The line number given to a fenced block that starts at offset start.
start_line_of(s, start) == CountNewlines(s, start) + 1

\* Mutant: last_end is set to the start of the match.
next_last_end_MatchStart(m) == m.start

\* The offset after which the next prose span starts.
next_last_end(m) == m.end

----------------------------------------------------------------------------
\* process_shell_commands: the rewrite of one cell.

remediation_comment(first_command) ==
  IF StartsWith(first_command, s_pip) THEN s_install_comment
  ELSE IF StartsWith(first_command, s_git) THEN s_git_comment
  ELSE IF StartsWith(first_command, s_python) THEN s_python_comment
  ELSE s_shell_comment

\* The test that selects the cells to enhance.
is_shell_cell(cell) ==
  /\ cell.cell_type = "code"
  /\ cell.source # <<>>
  /\ StartsWith(cell.source[1], s_bash_magic)

enhanced_source(source) ==
  <<s_bash_magic_nl>>
  \o (IF Len(source) > 1 THEN <<remediation_comment(Strip(source[2]))>> ELSE <<>>)
  \o Tail(source)
  \o <<s_note>>

process_cell(cell) ==
  IF is_shell_cell(cell)
  THEN [cell EXCEPT !.source = enhanced_source(cell.source)]
  ELSE cell

----------------------------------------------------------------------------
\* main: the fixed cells and the assembly of the notebook.

\* A character outside ASCII is written "U+" and its code point.
setup_source ==
  << <<"#", " ", "S", "e", "t", "u", "p", " ", "a", "n", "d", " ", "I", "m", "p", "o", "r", "t", "s", "\n">>,
     <<"i", "m", "p", "o", "r", "t", " ", "s", "y", "s", "\n">>,
     <<"i", "m", "p", "o", "r", "t", " ", "o", "s", "\n">>,
     <<"f", "r", "o", "m", " ", "p", "a", "t", "h", "l", "i", "b", " ", "i", "m", "p", "o", "r", "t", " ", "P", "a", "t", "h", "\n">>,
     <<"\n">>,
     <<"#", " ", "E", "n", "a", "b", "l", "e", " ", "s", "h", "e", "l", "l", " ", "m", "a", "g", "i", "c", " ", "f", "o", "r", " ", "t", "e", "r", "m", "i", "n", "a", "l", " ", "c", "o", "m", "m", "a", "n", "d", "s", "\n">>,
     <<"#", " ", "N", "o", "t", "e", ":", " ", "%", "%", "b", "a", "s", "h", " ", "m", "a", "g", "i", "c", " ", "i", "s", " ", "b", "u", "i", "l", "t", " ", "i", "n", "t", "o", " ", "I", "P", "y", "t", "h", "o", "n", "/", "J", "u", "p", "y", "t", "e", "r", "\n">>,
     <<"\n">>,
     <<"#", " ", "S", "e", "t", " ", "u", "p", " ", "d", "i", "s", "p", "l", "a", "y", " ", "o", "p", "t", "i", "o", "n", "s", "\n">>,
     <<"f", "r", "o", "m", " ", "I", "P", "y", "t", "h", "o", "n", ".", "d", "i", "s", "p", "l", "a", "y", " ", "i", "m", "p", "o", "r", "t", " ", "d", "i", "s", "p", "l", "a", "y", ",", " ", "H", "T", "M", "L", "\n">>,
     <<"\n">>,
     <<"#", " ", "C", "o", "n", "f", "i", "g", "u", "r", "e", " ", "n", "o", "t", "e", "b", "o", "o", "k", " ", "f", "o", "r", " ", "b", "e", "t", "t", "e", "r", " ", "o", "u", "t", "p", "u", "t", "\n">>,
     <<"i", "m", "p", "o", "r", "t", " ", "w", "a", "r", "n", "i", "n", "g", "s", "\n">>,
     <<"w", "a", "r", "n", "i", "n", "g", "s", ".", "f", "i", "l", "t", "e", "r", "w", "a", "r", "n", "i", "n", "g", "s", "(", "'", "i", "g", "n", "o", "r", "e", "'", ")", "\n">>,
     <<"\n">>,
     <<"p", "r", "i", "n", "t", "(", "\"", "U+2705", " ", "N", "o", "t", "e", "b", "o", "o", "k", " ", "s", "e", "t", "u", "p", " ", "c", "o", "m", "p", "l", "e", "t", "e", "!", "\"", ")">> >>

toc_source ==
  << <<"#", " ", "U+1F4DA", " ", "M", "a", "s", "t", "e", "r", "i", "n", "g", " ", "N", "e", "w", " ", "P", "y", "t", "h", "o", "n", " ", "L", "i", "b", "r", "a", "r", "i", "e", "s", "\n">>,
     <<"\n">>,
     <<"#", "#", " ", "I", "n", "t", "e", "r", "a", "c", "t", "i", "v", "e", " ", "N", "o", "t", "e", "b", "o", "o", "k", " ", "V", "e", "r", "s", "i", "o", "n", "\n">>,
     <<"\n">>,
     <<"T", "h", "i", "s", " ", "n", "o", "t", "e", "b", "o", "o", "k", " ", "c", "o", "n", "t", "a", "i", "n", "s", " ", "a", "l", "l", " ", "t", "h", "e", " ", "c", "o", "d", "e", " ", "e", "x", "a", "m", "p", "l", "e", "s", " ", "f", "r", "o", "m", " ", "t", "h", "e", " ", "R", "E", "A", "D", "M", "E", ".", "m", "d", " ", "f", "i", "l", "e", ".", " ">>,
     <<"Y", "o", "u", " ", "c", "a", "n", " ", "r", "u", "n", " ", "e", "a", "c", "h", " ", "c", "e", "l", "l", " ", "i", "n", "t", "e", "r", "a", "c", "t", "i", "v", "e", "l", "y", " ", "t", "o", " ", "e", "x", "p", "l", "o", "r", "e", " ", "P", "y", "t", "h", "o", "n", " ", "l", "i", "b", "r", "a", "r", "i", "e", "s", ".", "\n">>,
     <<"\n">>,
     <<"#", "#", "#", " ", "H", "o", "w", " ", "t", "o", " ", "U", "s", "e", " ", "T", "h", "i", "s", " ", "N", "o", "t", "e", "b", "o", "o", "k", ":", "\n">>,
     <<"\n">>,
     <<"1", ".", " ", "*", "*", "S", "e", "t", "u", "p", " ", "C", "e", "l", "l", "*", "*", ":", " ", "R", "u", "n", " ", "t", "h", "e", " ", "f", "i", "r", "s", "t", " ", "c", "e", "l", "l", " ", "t", "o", " ", "c", "o", "n", "f", "i", "g", "u", "r", "e", " ", "t", "h", "e", " ", "e", "n", "v", "i", "r", "o", "n", "m", "e", "n", "t", "\n">>,
     <<"2", ".", " ", "*", "*", "C", "o", "d", "e", " ", "C", "e", "l", "l", "s", "*", "*", ":", " ", "E", "x", "e", "c", "u", "t", "e", " ", "P", "y", "t", "h", "o", "n", " ", "e", "x", "a", "m", "p", "l", "e", "s", " ", "t", "o", " ", "s", "e", "e", " ", "t", "h", "e", "m", " ", "i", "n", " ", "a", "c", "t", "i", "o", "n", "\n">>,
     <<"3", ".", " ", "*", "*", "T", "e", "r", "m", "i", "n", "a", "l", " ", "C", "e", "l", "l", "s", "*", "*", ":", " ", "R", "u", "n", " ", "s", "h", "e", "l", "l", " ", "c", "o", "m", "m", "a", "n", "d", "s", " ", "w", "i", "t", "h", " ", BT, "%", "%", "b", "a", "s", "h", BT, " ", "m", "a", "g", "i", "c", "\n">>,
     <<"4", ".", " ", "*", "*", "M", "a", "r", "k", "d", "o", "w", "n", " ", "C", "e", "l", "l", "s", "*", "*", ":", " ", "R", "e", "a", "d", " ", "e", "x", "p", "l", "a", "n", "a", "t", "i", "o", "n", "s", " ", "a", "n", "d", " ", "d", "o", "c", "u", "m", "e", "n", "t", "a", "t", "i", "o", "n", "\n">>,
     <<"\n">>,
     <<"-", "-", "-", "\n">> >>

\* metadata: {}.
no_metadata == <<>>

setup_cell == [cell_type |-> "code", metadata |-> no_metadata, source |-> setup_source]
toc_cell == [cell_type |-> "markdown", metadata |-> no_metadata, source |-> toc_source]

\* list.insert(i, x): before index i (0-based), or at the end when the list
\* is shorter.
Insert(list, i, x) ==
  LET at == IF i > Len(list) THEN Len(list) ELSE i
  IN SubSeq(list, 1, at) \o <<x>> \o SubSeq(list, at + 1, Len(list))

\* The cells of the notebook after add_setup_cell and after add_toc_cell.
add_setup_cell(nb_cells) == Insert(nb_cells, 0, setup_cell)

\* Mutant: the table of contents is appended.
add_toc_cell_Appended(nb_cells) == Append(nb_cells, toc_cell)

add_toc_cell(nb_cells) == Insert(nb_cells, 1, toc_cell)

s_ipynb == <<".", "i", "p", "y", "n", "b">>
s_out == <<"o", "u", "t", ".", "i", "p", "y", "n", "b">>

\* args.output when the option is not given (None).
no_output == <<>>

\* Mutant: the suffix is added to the whole name.
with_suffix_Appended(path, suffix) == path \o suffix

\* Path.with_suffix: the part of the name from its last dot on (a dot that
\* is not the first character) is replaced by the suffix.
with_suffix(path, suffix) ==
  LET dots == {k \in 2..Len(path) : path[k] = "."}
  IN IF dots = {} THEN path \o suffix
     ELSE SubSeq(path, 1, Max(dots) - 1) \o suffix

\* output_path of main.
output_path(the_args) ==
  IF the_args.output = no_output THEN with_suffix(file_path, s_ipynb) ELSE the_args.output

\* The notebook file at the output path: missing, or left by an earlier run.
no_file(path) == [exists |-> FALSE, cells |-> <<>>, path |-> path]
old_file(path) == [exists |-> TRUE, cells |-> <<toc_cell, setup_cell>>, path |-> path]

\* create_notebook and the two optional insertions of main.
assemble(the_cells, the_args) ==
  LET with_setup == IF ~the_args.no_setup THEN add_setup_cell(the_cells) ELSE the_cells
  IN IF ~the_args.no_toc THEN add_toc_cell(with_setup) ELSE with_setup

----------------------------------------------------------------------------
\* test_code_blocks.py: the syntax validator.

s_dots == <<".", ".", ".">>
s_prompt_sp == <<">", ">", ">", " ">>
s_dots_sp == <<".", ".", ".", " ">>

\* s[n:].
Drop(s, n) == SubSeq(s, n + 1, Len(s))

\* '\n'.join(lines).
RECURSIVE JoinLines(_)
JoinLines(lines) ==
  IF lines = <<>> THEN <<>>
  ELSE IF Len(lines) = 1 THEN lines[1]
  ELSE lines[1] \o <<"\n">> \o JoinLines(Tail(lines))

\* extract_code_blocks: every match of the pattern from offset pos on, with
\* its tag in lower case (text when there is none), its stripped body and its
\* line.
RECURSIVE extract_from(_, _)
extract_from(s, pos) ==
  IF code_block_pattern(s, pos) = {} THEN <<>>
  ELSE LET m == MatchAt(s, Min(code_block_pattern(s, pos)))
       IN <<[language |-> Lower(IF m.language = <<>> THEN s_text ELSE m.language),
             code |-> Strip(m.body),
             start_line |-> CountNewlines(s, m.start) + 1]>>
          \o extract_from(s, m.end)
extract_code_blocks(s) == extract_from(s, 0)

\* [b for b in blocks if b['language'] in ['python', 'py']].
python_blocks(s) ==
  SelectSeq(extract_code_blocks(s), LAMBDA b : b.language \in {s_python, s_py})

\* What the loop of validate_python_syntax appends for one line.
python_line(raw) ==
  LET line == Strip(raw)
  IN IF StartsWith(line, s_prompt_sp) THEN <<Drop(line, 4)>>
     ELSE IF StartsWith(line, s_dots_sp) THEN <<Drop(line, 4)>>
     ELSE IF StartsWith(line, s_dots) THEN <<Drop(line, 3)>>
     ELSE IF line # <<>> /\ ~StartsWith(line, s_prompt) /\ ~StartsWith(line, s_dots)
     THEN <<line>>
     ELSE <<>>

RECURSIVE python_lines(_)
python_lines(lines) ==
  IF lines = <<>> THEN <<>> ELSE python_line(Head(lines)) \o python_lines(Tail(lines))

\* The code as it stands when validate_python_syntax reaches ast.parse.
parser_text(code) ==
  IF Contains(code, s_prompt) \/ Contains(code, s_dots)
  THEN JoinLines(python_lines(Split(code)))
  ELSE code

\* ast.parse on the fragment of Python the bodies below are written in (names,
\* =, the literal ..., parentheses, one statement per line): a text parses
\* when its parentheses are balanced and no line is indented.
Balanced(code) ==
  LET depth(n) == Cardinality({k \in 1..n : code[k] = "("})
                  - Cardinality({k \in 1..n : code[k] = ")"})
  IN /\ \A n \in 1..Len(code) : depth(n) >= 0
     /\ depth(Len(code)) = 0
ast_parse_ok(code) ==
  /\ Balanced(code)
  /\ \A k \in 1..Len(Split(code)) :
       Split(code)[k] = <<>> \/ ~IsSpace(Split(code)[k][1])

\* validate_python_syntax: is_valid, and whether and with what text the
\* parser was called.
validate_python_syntax(code) ==
  LET text == parser_text(code)
  IN IF Strip(text) = <<>>
     THEN [is_valid |-> TRUE, parsed |-> FALSE, text |-> text]
     ELSE [is_valid |-> ast_parse_ok(text), parsed |-> TRUE, text |-> text]

\* Mutant: nothing is reported after the first failure.
check_block_FirstFailureOnly(results, i, block) ==
  IF validate_python_syntax(block.code).is_valid
  THEN [results EXCEPT !.valid_blocks = @ + 1]
  ELSE IF results.syntax_errors = <<>>
  THEN [results EXCEPT !.syntax_errors = <<[block |-> i + 1, line |-> block.start_line]>>]
  ELSE results

\* One turn of the loop of test_code_blocks, on the block at index i
\* (0-based).
check_block(results, i, block) ==
  IF validate_python_syntax(block.code).is_valid
  THEN [results EXCEPT !.valid_blocks = @ + 1]
  ELSE [results EXCEPT !.syntax_errors = Append(@, [block |-> i + 1, line |-> block.start_line])]

\* What can be imported: the package, the conversion module (whose import
\* can also fail with something other than ImportError) and the execution
\* validator.
Envs ==
  {e \in [pkg : BOOLEAN, convert : {"ok", "ImportError", "Error"}, validate : BOOLEAN] :
     ~e.pkg => (e.convert = "ImportError" /\ ~e.validate)}

\* test_conversion_script.
test_conversion_script(env) == env.convert = "ok"

\* test_functional_operations.
test_functional_operations(env) ==
  IF ~env.pkg
  THEN [imports_work |-> FALSE, basic_operations |-> FALSE, error_handling |-> FALSE]
  ELSE [imports_work |-> TRUE,
        basic_operations |-> env.convert = "ok",
        error_handling |-> env.validate]

\* total_errors of main.
total_errors(cb, conv, func) ==
  Len(cb.syntax_errors)
  + (IF conv THEN 0 ELSE 1)
  + (IF func.imports_work /\ func.basic_operations THEN 0 ELSE 1)

----------------------------------------------------------------------------
\* validate_notebook.py: the execution validator.

s_import_mcp == <<"i", "m", "p", "o", "r", "t", " ", "m", "c", "p">>

\* The allow-list of anchors of cells known not to run.
problematic_cells ==
  {file_path \o <<":">> \o Str(216), file_path \o <<":">> \o Str(301),
   file_path \o <<":">> \o Str(488), file_path \o <<":">> \o Str(541),
   file_path \o <<":">> \o Str(559), file_path \o <<":">> \o Str(650)}

\* cell.source as nbformat hands it over, one string.
SourceText(cell) == Join(cell.source)

has_bash(cell) == Contains(SourceText(cell), s_bash_magic)
has_pkg_resources(cell) == Contains(SourceText(cell), s_pkg_resources)
has_mcp(cell) == Contains(SourceText(cell), s_import_mcp)

is_problematic(cell) ==
  /\ "source_anchor" \in DOMAIN cell.metadata
  /\ \E problem \in problematic_cells : Contains(cell.metadata.source_anchor, problem)

\* Whether the filter loop skips the cell.
skipped(cell) ==
  /\ cell.cell_type = "code"
  /\ has_bash(cell) \/ has_pkg_resources(cell) \/ has_mcp(cell) \/ is_problematic(cell)

\* filtered_cells after the loop.
filtered_cells(nb_cells) == SelectSeq(nb_cells, LAMBDA cell : ~skipped(cell))

\* The handler's search for the original cell of a failed cell: the 0-based
\* index of the first code cell of the notebook without %%bash whose source
\* equals the failed cell's, -1 when there is none.
original_index(nb_cells, cell) ==
  LET same == {j \in 1..Len(nb_cells) :
                 /\ nb_cells[j].cell_type = "code"
                 /\ ~has_bash(nb_cells[j])
                 /\ nb_cells[j].source = cell.source}
  IN IF same = {} THEN -1 ELSE Min(same) - 1

s_cell_sp == <<"c", "e", "l", "l", " ">>

\* What the handler prints for the cell at index i (0-based) of the executed
\* notebook: "Error in cell {i+1} (anchor: {anchor})", the anchor being the
\* original cell's source_anchor, or "cell {original_index}" when the
\* original cell carries none.
error_line(nb_cells, run_cells, i) ==
  LET cell == run_cells[i + 1]
      j == original_index(nb_cells, cell)
  IN [cell |-> i + 1,
      anchor |-> IF j >= 0 /\ "source_anchor" \in DOMAIN nb_cells[j + 1].metadata
                 THEN nb_cells[j + 1].metadata.source_anchor
                 ELSE s_cell_sp \o Str(IF j >= 0 THEN j ELSE i)]

\* What validate_notebook returns for an outcome of ep.preprocess: True from
\* the try block, False from the handler.
returned(how) == how = "ok"

\* Mutant: the exit status does not depend on the result.
exit_status_Zero(result) == 0

\* sys.exit(0 if success else 1).
exit_status(result) == IF result THEN 0 ELSE 1

----------------------------------------------------------------------------
\* The documents the model reads.

RECURSIVE TokenSeqs(_, _)
TokenSeqs(T, n) ==
  IF n = 0 THEN {<<>>}
  ELSE LET shorter == TokenSeqs(T, n - 1)
       IN shorter \cup {Append(t, x) : t \in {u \in shorter : Len(u) = n - 1}, x \in T}

\* Free-form documents: fences, newlines, a word character and a blank.
DocTokens == {FENCE, <<"\n">>, <<"a">>, <<" ">>}
Docs == {Join(t) : t \in TokenSeqs(DocTokens, MaxLen)}

\* Documents made of one fenced block, with every kind of tag and with
\* bodies that hold prompts, dollars and shell commands.
Tags == {<<>>, s_python, s_py, <<"P","y">>, s_bash, s_shell, s_sh, s_zsh,
         <<"B","a","s","h">>, s_text, <<"j","s">>}
BodyTokens == {s_prompt, <<"\n">>, <<"$">>, <<"x">>, <<" ">>, s_pip, s_git, s_python}
Block(tag, body) == FENCE \o tag \o <<"\n">> \o body \o FENCE
BlockDocs ==
  {Block(tag, Join(b)) : tag \in Tags, b \in TokenSeqs(BodyTokens, MaxBody)}

\* Documents made of two fenced blocks on consecutive lines.
PairTags == {<<>>, s_py, s_sh, <<"j","s">>}
PairBodyTokens == {s_prompt, <<"$">>, <<"x">>}
PairBlocks ==
  {Block(tag, Join(b)) : tag \in PairTags, b \in TokenSeqs(PairBodyTokens, MaxPairBody)}
PairDocs == {b1 \o <<"\n">> \o b2 : b1 \in PairBlocks, b2 \in PairBlocks}

\* Documents for main: up to MaxUnits pieces, each a line of prose or a
\* fenced block of one of the kinds.
Pieces == {<<"a", "\n">>,
           Block(s_py, <<"x", "\n">>) \o <<"\n">>,
           Block(s_sh, s_pip \o <<"\n">>) \o <<"\n">>,
           Block(<<>>, <<"x", "\n">>) \o <<"\n">>}
MainDocs == {Join(t) : t \in TokenSeqs(Pieces, MaxUnits)}

\* Documents for the rewriter: one block, python, shell or untagged, whose
\* body is up to MaxRewrite lines, each a module usage, an import or a call.
RewriteTags == {s_py, s_sh, <<>>}
RewriteLines == {s_os_dot, s_import_os, s_sys_dot, s_requests_dot, s_inspect_dot,
                 s_obj_dot, s_pkg_resources, s_pkg_resources_dot,
                 s_import_pkg_resources, <<" ">> \o s_import_pkg_resources,
                 s_print_call, <<"x">>}
RewriteDocs ==
  {Block(tag, Join(WithNewlines(b))) :
     tag \in RewriteTags, b \in TokenSeqs(RewriteLines, MaxRewrite)}

\* Documents for the syntax validator: up to MaxSyntaxBlocks blocks, each on
\* its own lines: python blocks that parse, that do not, a transcript, a body
\* with the literal ... and an indented line, an empty body, and a shell block.
SyntaxBlocks ==
  {Block(s_py, <<"x", "\n">>),
   Block(s_python, <<"(", "\n">>),
   Block(s_py, s_prompt_sp \o <<"x", "\n">> \o s_dots_sp \o <<"y", "\n">>),
   Block(s_py, <<"x", " ", "=", " ">> \o s_dots \o <<"\n", " ", " ", "y", "\n">>),
   Block(s_py, <<>>),
   Block(s_sh, <<"(", "\n">>)}
SyntaxDocs == {Join(WithNewlines(t)) : t \in TokenSeqs(SyntaxBlocks, MaxSyntaxBlocks)}

\* Notebooks for the execution validator: up to MaxCells cells, each a prose
\* cell, a python cell (at a line that is not listed, at the listed line 216,
\* at line 2160), a shell cell, a python cell that uses pkg_resources or
\* imports mcp, the setup cell or the table of contents.
ExecCells ==
  {md_cell(<<"a">>, 0, 1),
   python_cell(5, s_py, <<"x">>),
   python_cell(216, s_py, <<"x">>),
   python_cell(2160, s_py, <<"x">>),
   shell_cell(7, s_pip),
   python_cell(9, s_py, s_pkg_resources_dot \o <<"x">>),
   python_cell(11, s_py, s_import_mcp),
   setup_cell,
   toc_cell}
ExecNotebooks == TokenSeqs(ExecCells, MaxCells)

\* Documents of well-formed fenced blocks: up to MaxFenced pieces, each a
\* line of prose or a block with an opening fence line (no info string, a
\* one-word tag, c++, or a tag followed by a title), a one-line body and a
\* closing fence line.
InfoStrings == {<<>>, s_py, <<"c", "+", "+">>, s_py \o <<" ", "t">>}
FencedPieces ==
  {<<"a", "\n">>} \cup {Block(info, <<"x", "\n">>) \o <<"\n">> : info \in InfoStrings}
FencedDocs == {Join(t) : t \in TokenSeqs(FencedPieces, MaxFenced)}

----------------------------------------------------------------------------
\* The state machine.

VARIABLES
  content,      \* the document read from file_path
  pc,           \* "scan": in the loop of parse_markdown_file; "parsed": it
                \* returned; "processed": process_shell_commands returned
  scan_pos,     \* offset at which re.finditer looks for the next match
  last_end,     \* offset after the last fenced block
  block_count,  \* number of fenced blocks matched so far
  cells,        \* the cells built so far
  matches,      \* the match objects re.finditer has yielded, in order
  origin,       \* for each cell, where it comes from: block, the
                \* block_count of its fenced block (0 for a prose span), and
                \* the offsets from, to of the piece of the document
  segments,     \* the raw pieces of the document consumed so far: prose
                \* spans, opening fences, bodies and closing fences
  args,         \* main: the parsed command line, no_setup and no_toc
  input_exists, \* main: whether the input file can be opened
  notebook,     \* main: notebook['cells'] (the list main got from
                \* process_shell_commands, with the insertions made into it;
                \* cells keeps that list as it was returned)
  output_file,  \* main: the file at the output path: exists, the cells
                \* written, and the path
  exit_code,    \* main: the exit status of the process, -1 while it runs
  py_blocks,    \* test_code_blocks: the list python_blocks
  py_index,     \* test_code_blocks: the loop index i
  results,      \* test_code_blocks: the results dict
  handed,       \* test_code_blocks: for each block checked so far, its body
                \* and what validate_python_syntax did with it
  reports,      \* the dicts test_code_blocks returned, one per run
  conversion,   \* the syntax validator's main: all_results['conversion']
  functional,   \* the syntax validator's main: all_results['functional']
  loaded,       \* validate_notebook: whether the notebook file was read
  filtered,     \* validate_notebook: filtered_cells, the cells of test_notebook
  outcome,      \* validate_notebook: how ep.preprocess ended, "ok" or
                \* "raised" ("not_run" before)
  failed_at,    \* validate_notebook: the index in filtered of the cell whose
                \* execution raised (0: none, or the kernel itself)
  report,       \* validate_notebook: the "Error in cell" lines the handler
                \* printed
  success       \* the execution validator's main: what validate_notebook
                \* returned ("none" before)

scanVars == <<scan_pos, last_end, block_count, cells, matches, origin, segments>>
parseVars == <<content, pc, scanVars>>
mainVars == <<args, input_exists, notebook, output_file, exit_code>>
syntaxVars == <<py_blocks, py_index, results, handed, reports, conversion, functional>>
execVars == <<loaded, filtered, outcome, failed_at, report, success>>
restVars == <<syntaxVars, execVars>>
vars == <<parseVars, mainVars, restVars>>

\* The syntax validator before it has done anything.
no_results == [total_blocks |-> 0, python_blocks |-> 0, syntax_errors |-> <<>>, valid_blocks |-> 0]
SyntaxIdle ==
  /\ py_blocks = <<>>
  /\ py_index = 0
  /\ results = no_results
  /\ handed = <<>>
  /\ reports = <<>>
  /\ conversion = FALSE
  /\ functional = [imports_work |-> FALSE, basic_operations |-> FALSE, error_handling |-> FALSE]

\* The execution validator before it has done anything.
ExecIdle ==
  /\ loaded = FALSE
  /\ filtered = <<>>
  /\ outcome = "not_run"
  /\ failed_at = 0
  /\ report = <<>>
  /\ success = "none"

\* main before it has done anything.
MainIdle ==
  /\ notebook = <<>>
  /\ output_file = [exists |-> FALSE, cells |-> <<>>]
  /\ exit_code = -1

\* The state once parse_markdown_file has read a document of D (with the
\* default command line).
InitWith(D) ==
  /\ content \in D
  /\ pc = "scan"
  /\ args = [no_setup |-> FALSE, no_toc |-> FALSE, output |-> no_output]
  /\ input_exists = TRUE
  /\ MainIdle
  /\ SyntaxIdle
  /\ ExecIdle
  /\ scan_pos = 0
  /\ last_end = 0
  /\ block_count = 0
  /\ cells = <<>>
  /\ matches = <<>>
  /\ origin = <<>>
  /\ segments = <<>>

Init == InitWith(Docs)
InitBlock == InitWith(BlockDocs \cup PairDocs)

\* One iteration of the loop over re.finditer: the prose before the block,
\* if it is not blank, then the block's cell.
Scan ==
  /\ pc = "scan"
  /\ code_block_pattern(content, scan_pos) # {}
  /\ LET m == MatchAt(content, Min(code_block_pattern(content, scan_pos)))
         start_line == start_line_of(content, m.start)
         code_content == Strip(m.body)
         prose == IF Strip(Slice(content, last_end, m.start)) # <<>>
                  THEN <<md_cell(content, last_end, m.start)>> ELSE <<>>
         new == block_cells(start_line, m.language, code_content)
     IN /\ block_count' = block_count + 1
        /\ matches' = Append(matches, m)
        /\ cells' = cells \o prose \o new
        /\ origin' = origin
             \o [i \in 1..Len(prose) |-> [block |-> 0, from |-> last_end, to |-> m.start]]
             \o [i \in 1..Len(new) |-> [block |-> block_count + 1, from |-> m.start, to |-> m.end]]
        /\ segments' = segments \o
             << [kind |-> "prose", text |-> Slice(content, last_end, m.start)],
                [kind |-> "fence", text |-> FENCE \o m.language \o <<"\n">>],
                [kind |-> "body", text |-> m.body],
                [kind |-> "fence", text |-> FENCE] >>
        /\ last_end' = next_last_end(m)
        /\ scan_pos' = m.end
  /\ UNCHANGED <<content, pc>>
  /\ UNCHANGED mainVars
  /\ UNCHANGED restVars

\* After the loop: the remaining prose, if it is not blank.
Finish ==
  /\ pc = "scan"
  /\ code_block_pattern(content, scan_pos) = {}
  /\ LET prose == IF Strip(Slice(content, last_end, Len(content))) # <<>>
                  THEN <<md_cell(content, last_end, Len(content))>> ELSE <<>>
     IN /\ cells' = cells \o prose
        /\ origin' = origin
             \o [i \in 1..Len(prose) |-> [block |-> 0, from |-> last_end, to |-> Len(content)]]
  /\ segments' = Append(segments,
                        [kind |-> "prose", text |-> Slice(content, last_end, Len(content))])
  /\ pc' = "parsed"
  /\ UNCHANGED <<content, scan_pos, last_end, block_count, matches>>
  /\ UNCHANGED mainVars
  /\ UNCHANGED restVars

\* process_shell_commands over the parsed cells.
ProcessShell ==
  /\ pc = "parsed"
  /\ cells' = [i \in 1..Len(cells) |-> process_cell(cells[i])]
  /\ pc' = "processed"
  /\ UNCHANGED <<content, scan_pos, last_end, block_count, matches, origin, segments>>
  /\ UNCHANGED mainVars
  /\ UNCHANGED restVars

Next == Scan \/ Finish \/ ProcessShell

Spec == Init /\ [][Next]_vars
SpecBlock == InitBlock /\ [][Next]_vars

InitFenced == InitWith(FencedDocs)
SpecFenced == InitFenced /\ [][Next]_vars

InitRewrite == InitWith(RewriteDocs)
SpecRewrite == InitRewrite /\ [][Next]_vars

----------------------------------------------------------------------------
\* main of the conversion tool, from the command line to the exit status.

InitMain ==
  /\ pc = "start"
  /\ args \in [no_setup : BOOLEAN, no_toc : BOOLEAN, output : {no_output, s_out}]
  /\ input_exists \in BOOLEAN
  /\ content \in (IF input_exists THEN MainDocs ELSE {<<>>})
  /\ scan_pos = 0
  /\ last_end = 0
  /\ block_count = 0
  /\ cells = <<>>
  /\ matches = <<>>
  /\ origin = <<>>
  /\ segments = <<>>
  /\ notebook = <<>>
  /\ output_file \in {no_file(output_path(args)), old_file(output_path(args))}
  /\ exit_code = -1
  /\ SyntaxIdle
  /\ ExecIdle

\* parse_markdown_file opens and reads the input.
Read ==
  /\ pc = "start"
  /\ input_exists
  /\ pc' = "scan"
  /\ UNCHANGED <<content, scan_pos, last_end, block_count, cells, matches, origin, segments>>
  /\ UNCHANGED mainVars
  /\ UNCHANGED restVars

\* The input cannot be opened: parse_markdown_file prints and calls
\* sys.exit(1); SystemExit is not an Exception, so main's handler lets it
\* through.
ReadFail ==
  /\ pc = "start"
  /\ ~input_exists
  /\ pc' = "exit"
  /\ exit_code' = 1
  /\ UNCHANGED <<content, scan_pos, last_end, block_count, cells, matches, origin, segments>>
  /\ UNCHANGED <<args, input_exists, notebook, output_file>>
  /\ UNCHANGED restVars

\* create_notebook, then add_setup_cell and add_toc_cell unless switched off.
Assemble ==
  /\ pc = "processed"
  /\ notebook' = assemble(cells, args)
  /\ pc' = "assembled"
  /\ UNCHANGED <<content, scan_pos, last_end, block_count, cells, matches, origin, segments>>
  /\ UNCHANGED <<args, input_exists, output_file, exit_code>>
  /\ UNCHANGED restVars

\* The notebook is written and main returns.
WriteNotebook ==
  /\ pc = "assembled"
  /\ output_file' = [exists |-> TRUE, cells |-> notebook, path |-> output_path(args)]
  /\ exit_code' = 0
  /\ pc' = "exit"
  /\ UNCHANGED <<content, scan_pos, last_end, block_count, cells, matches, origin, segments>>
  /\ UNCHANGED <<args, input_exists, notebook>>
  /\ UNCHANGED restVars

\* open() of the output path raises: main's handler prints and exits 1.
WriteFail ==
  /\ pc = "assembled"
  /\ exit_code' = 1
  /\ pc' = "exit"
  /\ UNCHANGED <<content, scan_pos, last_end, block_count, cells, matches, origin, segments>>
  /\ UNCHANGED <<args, input_exists, notebook, output_file>>
  /\ UNCHANGED restVars

NextMain ==
  \/ Read \/ ReadFail \/ Scan \/ Finish \/ ProcessShell
  \/ Assemble \/ WriteNotebook \/ WriteFail

SpecMain == InitMain /\ [][NextMain]_vars

----------------------------------------------------------------------------
\* The syntax validator, run on a document that is not modified meanwhile.

idleParse ==
  /\ scan_pos = 0
  /\ last_end = 0
  /\ block_count = 0
  /\ cells = <<>>
  /\ matches = <<>>
  /\ origin = <<>>
  /\ segments = <<>>
  /\ args = [no_setup |-> FALSE, no_toc |-> FALSE, output |-> no_output]

InitSyntax ==
  /\ pc = "syntax_start"
  /\ input_exists \in BOOLEAN
  /\ content \in (IF input_exists THEN SyntaxDocs ELSE {<<>>})
  /\ idleParse
  /\ MainIdle
  /\ SyntaxIdle
  /\ ExecIdle

\* README.md cannot be opened: extract_code_blocks raises and the process
\* ends with a traceback.
SyntaxReadFail ==
  /\ pc = "syntax_start"
  /\ ~input_exists
  /\ exit_code' = 1
  /\ pc' = "exit"
  /\ UNCHANGED <<content, scanVars>>
  /\ UNCHANGED <<args, input_exists, notebook, output_file>>
  /\ UNCHANGED restVars

\* test_code_blocks up to its loop.
TestCodeBlocksStart ==
  /\ pc = "syntax_start"
  /\ input_exists
  /\ py_blocks' = python_blocks(content)
  /\ results' = [total_blocks |-> Len(extract_code_blocks(content)),
                 python_blocks |-> Len(py_blocks'),
                 syntax_errors |-> <<>>,
                 valid_blocks |-> 0]
  /\ py_index' = 0
  /\ handed' = <<>>
  /\ pc' = "syntax_loop"
  /\ UNCHANGED <<content, scanVars>>
  /\ UNCHANGED mainVars
  /\ UNCHANGED <<reports, conversion, functional>>
  /\ UNCHANGED execVars

\* One turn of the loop.
CheckBlock ==
  /\ pc = "syntax_loop"
  /\ py_index < Len(py_blocks)
  /\ LET block == py_blocks[py_index + 1]
     IN /\ results' = check_block(results, py_index, block)
        /\ handed' = Append(handed, [code |-> block.code]
                                      @@ validate_python_syntax(block.code))
  /\ py_index' = py_index + 1
  /\ UNCHANGED <<content, scanVars>>
  /\ UNCHANGED mainVars
  /\ UNCHANGED <<pc, py_blocks, reports, conversion, functional>>
  /\ UNCHANGED execVars

\* return results.
TestCodeBlocksReturn ==
  /\ pc = "syntax_loop"
  /\ py_index = Len(py_blocks)
  /\ reports' = Append(reports, results)
  /\ pc' = "syntax_returned"
  /\ UNCHANGED <<content, scanVars>>
  /\ UNCHANGED mainVars
  /\ UNCHANGED <<py_blocks, py_index, results, handed, conversion, functional>>
  /\ UNCHANGED execVars

\* The validator is run once more on the same document.
TestCodeBlocksAgain ==
  /\ pc = "syntax_returned"
  /\ Len(reports) < MaxRuns
  /\ pc' = "syntax_start"
  /\ UNCHANGED <<content, scanVars>>
  /\ UNCHANGED mainVars
  /\ UNCHANGED restVars

\* The rest of main: the conversion and functional checks and the exit
\* status.
SyntaxMain ==
  /\ pc = "syntax_returned"
  /\ \E env \in Envs :
       IF env.convert = "Error"
       THEN /\ exit_code' = 1
            /\ UNCHANGED <<conversion, functional>>
       ELSE /\ conversion' = test_conversion_script(env)
            /\ functional' = test_functional_operations(env)
            /\ exit_code' = IF total_errors(results, conversion', functional') = 0 THEN 0 ELSE 1
  /\ pc' = "exit"
  /\ UNCHANGED <<content, scanVars>>
  /\ UNCHANGED <<args, input_exists, notebook, output_file>>
  /\ UNCHANGED <<py_blocks, py_index, results, handed, reports>>
  /\ UNCHANGED execVars

NextSyntax ==
  \/ SyntaxReadFail \/ TestCodeBlocksStart \/ CheckBlock
  \/ TestCodeBlocksReturn \/ TestCodeBlocksAgain \/ SyntaxMain

SpecSyntax == InitSyntax /\ [][NextSyntax]_vars

----------------------------------------------------------------------------
\* The execution validator, from its command line to the exit status.
\* output_file is the notebook file it is given.

InitExec ==
  /\ pc = "exec_start"
  /\ output_file \in {[exists |-> FALSE, cells |-> <<>>]}
                     \cup {[exists |-> TRUE, cells |-> nb] : nb \in ExecNotebooks}
  /\ content = <<>>
  /\ input_exists = TRUE
  /\ idleParse
  /\ notebook = <<>>
  /\ exit_code = -1
  /\ SyntaxIdle
  /\ ExecIdle

\* main: the notebook file does not exist.
ExecMissing ==
  /\ pc = "exec_start"
  /\ ~output_file.exists
  /\ exit_code' = 1
  /\ pc' = "exit"
  /\ UNCHANGED <<content, scanVars>>
  /\ UNCHANGED <<args, input_exists, notebook, output_file>>
  /\ UNCHANGED restVars

\* validate_notebook reads the notebook.
Load ==
  /\ pc = "exec_start"
  /\ output_file.exists
  /\ notebook' = output_file.cells
  /\ loaded' = TRUE
  /\ pc' = "exec_loaded"
  /\ UNCHANGED <<content, scanVars>>
  /\ UNCHANGED <<args, input_exists, output_file, exit_code>>
  /\ UNCHANGED syntaxVars
  /\ UNCHANGED <<filtered, outcome, failed_at, report, success>>

\* The filter loop and the notebook built from its result.
Filter ==
  /\ pc = "exec_loaded"
  /\ filtered' = filtered_cells(notebook)
  /\ pc' = "exec_filtered"
  /\ UNCHANGED <<content, scanVars>>
  /\ UNCHANGED mainVars
  /\ UNCHANGED syntaxVars
  /\ UNCHANGED <<loaded, outcome, failed_at, report, success>>

\* ep.preprocess runs every cell and raises nothing.
ExecuteOk ==
  /\ pc = "exec_filtered"
  /\ outcome' = "ok"
  /\ success' = returned(outcome')
  /\ pc' = "exec_returned"
  /\ UNCHANGED <<content, scanVars>>
  /\ UNCHANGED mainVars
  /\ UNCHANGED syntaxVars
  /\ UNCHANGED <<loaded, filtered, failed_at, report>>

\* ep.preprocess raises, at a code cell or before any cell (the kernel); the
\* cells before it ran without error and the cells after it were not run, so
\* the handler finds an error output in that cell only, reports and returns.
ExecuteFail ==
  /\ pc = "exec_filtered"
  /\ \E k \in {0} \cup {j \in 1..Len(filtered) : filtered[j].cell_type = "code"} :
       /\ failed_at' = k
       /\ report' = IF k = 0 THEN <<>> ELSE <<error_line(notebook, filtered, k - 1)>>
  /\ outcome' = "raised"
  /\ success' = returned(outcome')
  /\ pc' = "exec_returned"
  /\ UNCHANGED <<content, scanVars>>
  /\ UNCHANGED mainVars
  /\ UNCHANGED syntaxVars
  /\ UNCHANGED <<loaded, filtered>>

\* main: sys.exit(0 if success else 1).
ExecExit ==
  /\ pc = "exec_returned"
  /\ exit_code' = exit_status(success)
  /\ pc' = "exit"
  /\ UNCHANGED <<content, scanVars>>
  /\ UNCHANGED <<args, input_exists, notebook, output_file>>
  /\ UNCHANGED restVars

NextExec == ExecMissing \/ Load \/ Filter \/ ExecuteOk \/ ExecuteFail \/ ExecExit

SpecExec == InitExec /\ [][NextExec]_vars

----------------------------------------------------------------------------
\* What the claims speak of.

BlockUnits == {i \in 1..Len(cells) : origin[i].block > 0}
ProseUnits == {i \in 1..Len(cells) : origin[i].block = 0}
MatchOf(i) == matches[origin[i].block]
TagOf(i) == Lower(MatchOf(i).language)
PythonTags == {s_python, s_py}
ShellTags == {s_bash, s_shell, s_sh, s_zsh}

\* The kind of a unit, read off the cell: a markdown cell is Markdown, a code
\* cell whose line after the anchor is the %%bash marker is Shell, any other
\* code cell is Code.
IsShellUnit(cell) ==
  /\ cell.cell_type = "code"
  /\ Len(cell.source) >= 2
  /\ cell.source[2] = s_bash_magic_nl
Kind(cell) ==
  IF cell.cell_type = "markdown" THEN "Markdown"
  ELSE IF IsShellUnit(cell) THEN "Shell"
  ELSE "Code"

\* A line with its leading blanks removed.
DropLeadingBlanks(line) ==
  LET keep == {k \in 1..Len(line) : ~IsSpace(line[k])}
  IN IF keep = {} THEN <<>> ELSE SubSeq(line, Min(keep), Len(line))

\* Some line of the body begins (after indentation) with the prompt >>>.
HasPromptLine(body) ==
  \E k \in 1..Len(Split(body)) : StartsWith(DropLeadingBlanks(Split(body)[k]), s_prompt)

\* C1: a python/py block is a Code unit exactly when no line of its body
\* begins with the prompt >>>, and a Markdown unit exactly when some line
\* does; a >>> elsewhere in a line does not make the block Markdown.
C1_PromptLineDecides ==
  \A i \in BlockUnits :
    TagOf(i) \in PythonTags =>
      /\ Kind(cells[i]) = "Code" <=> ~HasPromptLine(MatchOf(i).body)
      /\ Kind(cells[i]) = "Markdown" <=> HasPromptLine(MatchOf(i).body)

\* C2: a block whose lowercased tag is not python/py is Shell if the tag is
\* one of bash, shell, sh, zsh, or if the body holds a $ anywhere, and
\* Markdown otherwise; a python/py block is never Shell.
C2_ShellRule ==
  \A i \in BlockUnits :
    LET dollar == \E k \in 1..Len(MatchOf(i).body) : MatchOf(i).body[k] = "$"
    IN IF TagOf(i) \in PythonTags
       THEN Kind(cells[i]) # "Shell"
       ELSE IF TagOf(i) \in ShellTags \/ dollar
            THEN Kind(cells[i]) = "Shell"
            ELSE Kind(cells[i]) = "Markdown"

\* An untagged block whose body holds a $ has been classified Shell.
C2_Witness ==
  /\ pc = "parsed"
  /\ Len(matches) = 1
  /\ \E i \in BlockUnits :
       /\ MatchOf(i).language = <<>>
       /\ Contains(MatchOf(i).body, <<"$">>)
       /\ Kind(cells[i]) = "Shell"

\* The cell carries the anchor line of its kind and the body's lines.
WellFormedUnit(cell) ==
  /\ cell.cell_type \in {"markdown", "code"}
  /\ Len(cell.source) >= 2
  /\ cell.cell_type = "markdown" =>
       /\ StartsWith(cell.source[1], s_md_anchor_open)
       /\ Len(cell.source) = 2
       /\ StartsWith(cell.source[2], FENCE)
  /\ cell.cell_type = "code" => StartsWith(cell.source[1], s_code_anchor_open)

\* C3: classification is total and does not depend on anything but the
\* pair (tag, body): every fenced block the scanner matched yields exactly
\* one unit, which is a well-formed Markdown, Shell or Code unit, and two
\* blocks of one document with the same tag and body get the same kind.
C3_TotalAndDeterministic ==
  /\ \A k \in 1..Len(matches) :
       Cardinality({i \in BlockUnits : origin[i].block = k}) = 1
  /\ \A i \in BlockUnits : WellFormedUnit(cells[i])
  /\ \A i, j \in BlockUnits :
       (MatchOf(i).language = MatchOf(j).language /\ MatchOf(i).body = MatchOf(j).body)
         => Kind(cells[i]) = Kind(cells[j])

\* Two blocks with the same tag and the same non-empty body have been
\* classified, one unit each.
C3_Witness ==
  /\ pc = "parsed"
  /\ Len(matches) = 2
  /\ matches[1].language = matches[2].language
  /\ matches[1].body = matches[2].body
  /\ matches[1].body # <<>>
  /\ Cardinality(BlockUnits) = 2

\* C4: a fenced block emitted as a Markdown unit is rendered as a fenced
\* block whose tag is the block's tag as written, or text when it had none.
C4_OriginalTagKept ==
  \A i \in BlockUnits :
    Kind(cells[i]) = "Markdown" =>
      LET tag == IF MatchOf(i).language = <<>> THEN s_text ELSE MatchOf(i).language
      IN StartsWith(cells[i].source[2], FENCE \o tag \o <<"\n">>)

\* The comment process_shell_commands is to add for a shell body.
ExpectedComment(code_content) ==
  IF StartsWith(code_content, s_pip) THEN s_install_comment
  ELSE IF StartsWith(code_content, s_git) THEN s_git_comment
  ELSE IF StartsWith(code_content, s_python) THEN s_python_comment
  ELSE s_shell_comment

\* C5: after parse_markdown_file and process_shell_commands, a block tagged
\* bash/shell/sh/zsh is one Shell unit whose content starts with the %%bash
\* marker and holds the comment chosen from the first command.
C5_ShellMarkerAndComment ==
  pc = "processed" =>
    \A i \in BlockUnits :
      TagOf(i) \in ShellTags =>
        /\ cells[i].cell_type = "code"
        /\ StartsWith(Join(cells[i].source), s_bash_magic)
        /\ \E k \in 1..Len(cells[i].source) :
             cells[i].source[k] = ExpectedComment(Strip(MatchOf(i).body))

\* The number of newlines among the first n characters, counted one
\* character at a time.
RECURSIVE NewlinesBefore(_)
NewlinesBefore(n) ==
  IF n = 0 THEN 0
  ELSE NewlinesBefore(n - 1) + (IF content[n] = "\n" THEN 1 ELSE 0)

\* The 1-based number of the line that holds the character at offset k.
LineOfOffset(k) == NewlinesBefore(k) + 1

\* C6: the source_line values of the units are non-decreasing in unit order,
\* prose units and fenced-block units taken together.
C6_LocatorMonotone ==
  \A i, j \in 1..Len(cells) :
    i < j => cells[i].metadata.source_line <= cells[j].metadata.source_line

\* Prose, a block and prose again have been emitted, on rising lines.
C6_Witness ==
  /\ pc = "parsed"
  /\ Len(cells) >= 3
  /\ ProseUnits # {}
  /\ BlockUnits # {}
  /\ cells[1].metadata.source_line < cells[Len(cells)].metadata.source_line

\* C7: the locator line of a unit made from a fenced block is the 1-based
\* number of the line that holds the block's opening fence: the number of
\* newlines before the opening fence, plus one.
C7_BlockLocator ==
  \A i \in BlockUnits :
    /\ Slice(content, MatchOf(i).start, MatchOf(i).start + 3) = FENCE
    /\ cells[i].metadata.source_line = LineOfOffset(MatchOf(i).start)
    /\ cells[i].metadata.source_anchor = file_path \o <<":">> \o Str(LineOfOffset(MatchOf(i).start))

\* A block whose opening fence is not on the first line has been emitted.
C7_Witness ==
  \E i \in BlockUnits : cells[i].metadata.source_line >= 2

\* The offset of the first non-blank character of a prose unit's span.
TextStart(i) ==
  Min({k \in origin[i].from .. origin[i].to - 1 : ~IsSpace(content[k + 1])})

\* C8: the locator line of a prose unit is the 1-based number of the line
\* on which its text begins.
C8_ProseLocator ==
  \A i \in ProseUnits : cells[i].metadata.source_line = LineOfOffset(TextStart(i))

\* The texts of the segments consumed so far, concatenated.
Consumed == Join([k \in 1..Len(segments) |-> segments[k].text])

\* C9: the prose spans, fence delimiters and block bodies the scanner has
\* consumed, concatenated in order, are the document up to the point reached,
\* and the whole document once parse_markdown_file has returned: no
\* character is lost or duplicated.
C9_Partition ==
  /\ Consumed = Slice(content, 0, IF pc = "scan" THEN last_end ELSE Len(content))
  /\ \A k \in 1..Len(matches) :
       /\ matches[k].start < matches[k].end
       /\ k > 1 => matches[k - 1].end <= matches[k].start

\* Two blocks with prose between them have been consumed.
C9_Witness ==
  /\ pc = "parsed"
  /\ Len(matches) = 2
  /\ matches[1].end < matches[2].start
  /\ Consumed = content

\* The text a prose unit carries: its lines after the anchor line.
UnitText(cell) == Join(Tail(cell.source))

\* The unit's text is the document from its first to its last non-blank
\* character, followed by a newline.
CoversDocument(cell) ==
  LET text == UnitText(cell)
      n == Len(text) - 1
  IN /\ n >= 1
     /\ text[n + 1] = "\n"
     /\ ~IsSpace(text[1])
     /\ ~IsSpace(text[n])
     /\ \E a \in 0..Len(content) - n :
          /\ Slice(content, a, a + n) = SubSeq(text, 1, n)
          /\ \A k \in 1..a : IsSpace(content[k])
          /\ \A k \in a + n + 1..Len(content) : IsSpace(content[k])

\* C10: when the scanner finds no fenced block, parse_markdown_file returns
\* one Markdown unit covering the whole document, with locator line 1, if
\* the document is not blank, and no unit if it is empty or blank.
C10_NoBlocks ==
  (pc # "scan" /\ matches = <<>>) =>
    IF \E k \in 1..Len(content) : ~IsSpace(content[k])
    THEN /\ Len(cells) = 1
         /\ cells[1].cell_type = "markdown"
         /\ cells[1].metadata.source_line = 1
         /\ cells[1].source[1] = MdAnchorLine(1)
         /\ CoversDocument(cells[1])
    ELSE cells = <<>>

\* A document of several lines without a fenced block has been parsed into
\* one unit.
C10_Witness ==
  /\ pc = "parsed"
  /\ matches = <<>>
  /\ Len(cells) = 1
  /\ Len(cells[1].source) >= 3
  /\ Contains(content, FENCE)

----------------------------------------------------------------------------
\* The assembled container.

\* main has built the notebook (and perhaps written it).
Assembled == pc = "assembled" \/ (pc = "exit" /\ input_exists)

WantSetup == ~args.no_setup
WantToc == ~args.no_toc

\* C11: with both the Setup and the Table-of-Contents unit requested, an
\* N-unit input gives a container of exactly N+2 units: Setup at index 0,
\* Table-of-Contents at index 1, then the N input units in their order; the
\* file written holds that container.
C11_SetupTocThenUnits ==
  (Assembled /\ WantSetup /\ WantToc) =>
    /\ Len(notebook) = Len(cells) + 2
    /\ notebook[1] = setup_cell
    /\ notebook[2] = toc_cell
    /\ \A i \in 1..Len(cells) : notebook[i + 2] = cells[i]
    /\ (pc = "exit" /\ exit_code = 0) => output_file.cells = notebook

C11_Witness ==
  /\ pc = "exit" /\ exit_code = 0
  /\ WantSetup /\ WantToc
  /\ Len(cells) = 3
  /\ cells[1] # cells[2]
  /\ cells[2] # cells[3]
  /\ Len(output_file.cells) = 5

\* C12: with the Setup unit suppressed and the Table-of-Contents unit
\* requested, the Table-of-Contents unit is at index 0 of the container,
\* before every unit of the document.
C12_TocFirstWithoutSetup ==
  (Assembled /\ ~WantSetup /\ WantToc) =>
    /\ Len(notebook) = Len(cells) + 1
    /\ notebook[1] = toc_cell
    /\ \A i \in 1..Len(cells) : notebook[i + 1] = cells[i]

\* The anchor string of a locator, <file>:<line>.
HasLocator(cell) ==
  /\ DOMAIN cell.metadata = {"source_file", "source_line", "source_anchor"}
  /\ cell.metadata.source_file = file_path
  /\ cell.metadata.source_line \in Nat
  /\ cell.metadata.source_line >= 1
  /\ cell.metadata.source_anchor = file_path \o <<":">> \o Str(cell.metadata.source_line)
  /\ Len(cell.source) >= 1
  /\ Contains(cell.source[1], cell.metadata.source_anchor)

FixedCells ==
  (IF WantSetup THEN {setup_cell} ELSE {}) \cup (IF WantToc THEN {toc_cell} ELSE {})

----------------------------------------------------------------------------
\* The rewriter.

\* The stripped body of the block a unit came from, and its lines as the
\* parser emits an untouched line.
BodyOf(i) == Strip(MatchOf(i).body)
BodyLines(i) == WithNewlines(Split(BodyOf(i)))

Modules == {<<"o","s">>, <<"s","y","s">>, <<"r","e","q","u","e","s","t","s">>,
            <<"i","n","s","p","e","c","t">>}
ImportOf(m) == <<"i","m","p","o","r","t"," ">> \o m
UsageOf(m) == m \o <<".">>

\* The lines of a Code unit between the anchor line and the body: up to the
\* guarded import of pkg_resources when there is one, otherwise all but the
\* last lines, as many as the body has.
TryAt(source) == {k \in 1..Len(source) : source[k] = s_try}
Prepended(i) ==
  LET source == cells[i].source
  IN IF TryAt(source) # {}
     THEN SubSeq(source, 2, Min(TryAt(source)) - 1)
     ELSE SubSeq(source, 2, Len(source) - Len(BodyLines(i)))

\* C14: import lines are synthesized only in Code units; the body lines of
\* Shell and Markdown units are emitted unchanged. In a Code unit, for each
\* module m of os, sys, requests, inspect, the line `import m` is prepended
\* exactly when the body contains `m.` and no `import m`; the prepended lines
\* come after the anchor line and before every body line.
C14_ImportsOnlyInCode ==
  \A i \in BlockUnits :
    LET cell == cells[i]
        source == cell.source
        body == BodyOf(i)
    IN CASE Kind(cell) = "Shell" ->
              source = <<CodeAnchorLine(cell.metadata.source_line), s_bash_magic_nl>>
                       \o BodyLines(i)
         [] Kind(cell) = "Markdown" ->
              /\ Len(source) = 2
              /\ \E tag \in {<<>>, s_python} :
                   source[2] = FENCE \o tag \o <<"\n">> \o body \o <<"\n">> \o FENCE
         [] OTHER ->
              /\ source[1] = CodeAnchorLine(cell.metadata.source_line)
              /\ \A m \in Modules :
                   /\ (\E k \in 1..Len(Prepended(i)) : Prepended(i)[k] = Append(ImportOf(m), "\n"))
                        <=> (Contains(body, UsageOf(m)) /\ ~Contains(body, ImportOf(m)))
                   /\ Cardinality({k \in 1..Len(Prepended(i)) :
                                     Prepended(i)[k] = Append(ImportOf(m), "\n")}) <= 1
              /\ \A k \in 1..Len(Prepended(i)) :
                   \/ \E m \in Modules : Prepended(i)[k] = Append(ImportOf(m), "\n")
                   \/ Prepended(i)[k] = s_obj_line
              /\ ~Contains(body, s_pkg_resources) =>
                   source = <<source[1]>> \o Prepended(i) \o BodyLines(i)

C14_Witness ==
  /\ pc = "processed"
  /\ \E i \in BlockUnits :
       /\ Kind(cells[i]) = "Code"
       /\ Contains(BodyOf(i), s_sys_dot) /\ Contains(BodyOf(i), s_import_os)
       /\ cells[i].source = <<CodeAnchorLine(1), Append(s_import_sys, "\n")>> \o BodyLines(i)
       /\ Len(BodyLines(i)) = 2

\* C15: in a Code unit whose body mentions pkg_resources the content holds,
\* after the anchor and the synthesized imports, the guarded import that sets
\* pkg_resources to None on ImportError; the body's own `import pkg_resources`
\* line is not emitted; every later line that uses pkg_resources is indented
\* directly under a guard line `if pkg_resources is not None:`.
C15_PkgResourcesGuarded ==
  \A i \in BlockUnits :
    (Kind(cells[i]) = "Code" /\ Contains(BodyOf(i), s_pkg_resources)) =>
      LET source == cells[i].source
      IN /\ TryAt(source) # {}
         /\ LET t == Min(TryAt(source))
            IN /\ Len(source) >= t + 4
               /\ SubSeq(source, t, t + 4) =
                    <<s_try, s_guarded_import, s_except, s_not_available, s_pkg_none>>
               /\ \A k \in (t + 5)..Len(source) :
                    /\ Strip(source[k]) # s_import_pkg_resources
                    /\ (Contains(source[k], s_pkg_resources) /\ source[k] # s_if_pkg) =>
                         /\ StartsWith(source[k], s_indent)
                         /\ source[k - 1] = s_if_pkg

----------------------------------------------------------------------------
\* The syntax validator.

\* Whether report r is complete for the python/py blocks pb of the document,
\* of which those numbered in failing do not validate.
CompleteReport(r, pb, failing) ==
  /\ r.python_blocks = Len(pb)
  /\ r.valid_blocks + Len(r.syntax_errors) = r.python_blocks
  /\ Len(r.syntax_errors) = Cardinality(failing)
  /\ \A k \in failing :
       \E j \in 1..Len(r.syntax_errors) :
         /\ r.syntax_errors[j].block = k
         /\ r.syntax_errors[j].line = pb[k].start_line
         /\ \A j2 \in 1..Len(r.syntax_errors) : r.syntax_errors[j2].block = k => j2 = j
  /\ \A j1, j2 \in 1..Len(r.syntax_errors) :
       j1 < j2 => r.syntax_errors[j1].block < r.syntax_errors[j2].block

\* C16: test_code_blocks checks every python/py block whatever the outcome of
\* the earlier ones: on return valid_blocks + len(syntax_errors) =
\* python_blocks, each failing block is listed exactly once with its 1-based
\* number and its start line, in document order; a second run on the same
\* document returns the same report.
C16_CompleteAndRepeatable ==
  reports # <<>> =>
    LET pb == python_blocks(content)
        failing == {k \in 1..Len(pb) : ~validate_python_syntax(pb[k].code).is_valid}
    IN /\ pc = "syntax_returned" => Len(handed) = Len(pb)
       /\ \A k \in 1..Len(reports) : CompleteReport(reports[k], pb, failing)
       /\ \A j, k \in 1..Len(reports) : reports[j] = reports[k]

C16_Witness ==
  /\ Len(reports) = 2
  /\ reports[2].valid_blocks = 1
  /\ reports[2].syntax_errors = <<[block |-> 1, line |-> 1], [block |-> 3, line |-> 7]>>

\* A line with its prompt prefix removed: `>>> ` and the continuation prompt
\* `... ` lose their four characters, a bare `...` line becomes empty, any
\* other line is unchanged.
WithoutPrompt(line) ==
  IF StartsWith(line, s_prompt_sp) \/ StartsWith(line, s_dots_sp) THEN Drop(line, 4)
  ELSE IF line = s_dots THEN <<>>
  ELSE line
OnlyPromptsRemoved(code) ==
  JoinLines([k \in 1..Len(Split(code)) |-> WithoutPrompt(Split(code)[k])])

\* C17: the text handed to the parser is the block body with only the prompt
\* prefixes removed; every line that does not start with a prompt is passed
\* through unchanged, and a body with no prompt line is parsed as written.
C17_OnlyPromptPrefixesRemoved ==
  \A k \in 1..Len(handed) :
    handed[k].parsed => handed[k].text = OnlyPromptsRemoved(handed[k].code)

----------------------------------------------------------------------------
\* The execution validator.

\* The locator of a unit is one of the listed ones.
ListedLocator(cell) ==
  /\ "source_anchor" \in DOMAIN cell.metadata
  /\ cell.metadata.source_anchor \in problematic_cells

\* The units the claim has removed: code units that are Shell-kind, that
\* carry a listed locator, or that reference pkg_resources or import mcp.
ToBeRemoved(cell) ==
  /\ cell.cell_type = "code"
  /\ \/ IsShellUnit(cell)
     \/ ListedLocator(cell)
     \/ Contains(SourceText(cell), s_pkg_resources)
     \/ Contains(SourceText(cell), s_import_mcp)

\* C19: the units the execution validator runs are the units of the
\* container, in container order, without the Shell-kind code units, the
\* code units with a listed locator and the code units that reference
\* pkg_resources or import mcp; every Markdown unit and every other Code unit
\* is kept, also one whose locator only contains a listed locator.
C19_ExactlyTheListedRemoved ==
  pc \in {"exec_filtered", "exec_returned"} =>
    filtered = SelectSeq(notebook, LAMBDA cell : ~ToBeRemoved(cell))

\* C20: a failure of the execution pass is caught in validate_notebook, which
\* then returns False; it returns True exactly when the pass raised nothing.
\* The command exits with 0 exactly when validate_notebook returned True, and
\* with 1, having loaded and executed nothing, when the file is missing.
C20_FailureCaughtAndReported ==
  /\ outcome = "raised" => (pc \in {"exec_returned", "exit"} /\ success = FALSE)
  /\ outcome = "ok" => success = TRUE
  /\ outcome = "not_run" => success = "none"
  /\ pc = "exit" =>
       /\ exit_code \in {0, 1}
       /\ exit_code = 0 <=> (outcome # "not_run" /\ success = TRUE)
  /\ (pc = "exit" /\ ~output_file.exists) =>
       /\ exit_code = 1
       /\ ~loaded
       /\ outcome = "not_run"
       /\ filtered = <<>>

C20_Witness ==
  /\ pc = "exit"
  /\ outcome = "raised"
  /\ failed_at = 2
  /\ Len(notebook) = 2
  /\ success = FALSE
  /\ exit_code = 1

\* Whether the filter loop of the code keeps a cell.
ToBeKept(cell) == ~skipped(cell)

\* The positions (1-based) in the notebook of the cells the filter keeps, in
\* order: the k-th cell of filtered is the cell at KeptFrom[k].
RECURSIVE KeptAfter(_)
KeptAfter(j) ==
  IF j > Len(notebook) THEN <<>>
  ELSE (IF ToBeKept(notebook[j]) THEN <<j>> ELSE <<>>) \o KeptAfter(j + 1)
KeptFrom == KeptAfter(1)

\* C21: when the pass fails at a unit, the validator reports exactly one
\* unit, the one that failed, with that unit's own source_anchor and its
\* index in the original container (counted from 0 or from 1), not its index
\* in the filtered container.
C21_ReportsOriginalUnit ==
  (outcome = "raised" /\ failed_at >= 1) =>
    LET at == KeptFrom[failed_at]
    IN /\ Len(report) = 1
       /\ "source_anchor" \in DOMAIN notebook[at].metadata =>
            report[1].anchor = notebook[at].metadata.source_anchor
       /\ report[1].cell \in {at - 1, at}

----------------------------------------------------------------------------
\* The conversion tool and its files.

s_README_ipynb == <<"R", "E", "A", "D", "M", "E", ".", "i", "p", "y", "n", "b">>

\* The path the notebook is to be written to: the one given, by default the
\* input path with its extension replaced by .ipynb.
ChosenPath == IF args.output = no_output THEN s_README_ipynb ELSE args.output

\* C22: the output file is written only after the document was read and
\* converted. When the input cannot be read the process exits with a non-zero
\* status and the output file is neither created nor modified; when the run
\* exits with 0 the output file exists at the chosen path and holds the
\* notebook.
C22_OutputOnlyAfterConversion ==
  /\ []((pc = "exit" /\ ~input_exists) => (exit_code = 1 /\ notebook = <<>>))
  /\ []((pc = "exit" /\ exit_code = 0) =>
          /\ input_exists
          /\ output_file.exists
          /\ output_file.path = ChosenPath
          /\ output_file.cells = notebook)
  /\ [][output_file' # output_file =>
          /\ input_exists
          /\ pc = "assembled"
          /\ pc' = "exit"
          /\ exit_code' = 0]_vars

C22_Witness ==
  /\ pc = "exit"
  /\ ~input_exists
  /\ exit_code = 1
  /\ output_file = old_file(s_README_ipynb)

----------------------------------------------------------------------------
\* The stored body of a fenced block.

\* A line without its final newline.
Chomp(line) ==
  IF line # <<>> /\ line[Len(line)] = "\n" THEN SubSeq(line, 1, Len(line) - 1) ELSE line

\* The body a block unit stores, read off the cell: the lines after the anchor
\* (and the %%bash marker) of a code cell, the text between the fence lines
\* of a markdown cell.
StoredBody(cell) ==
  IF cell.cell_type = "markdown"
  THEN LET text == cell.source[2]
           nl == Min({k \in 1..Len(text) : text[k] = "\n"})
       IN SubSeq(text, nl + 1, Len(text) - Len(s_fence_close))
  ELSE LET first == IF IsShellUnit(cell) THEN 3 ELSE 2
       IN JoinLines([k \in 1..(Len(cell.source) - first + 1) |->
                       Chomp(cell.source[first + k - 1])])

\* A text without its leading and trailing blank lines; every other line is
\* kept as it is.
TrimBlankLines(text) ==
  LET lines == Split(text)
      full == {k \in 1..Len(lines) : Strip(lines[k]) # <<>>}
  IN IF full = {} THEN <<>> ELSE JoinLines(SubSeq(lines, Min(full), Max(full)))

\* A text without the blanks at its end.
RStrip(text) ==
  LET keep == {k \in 1..Len(text) : ~IsSpace(text[k])}
  IN IF keep = {} THEN <<>> ELSE SubSeq(text, 1, Max(keep))

\* C23: the stored body of a fenced block is the raw body without its leading
\* and trailing blank lines; every non-blank line, the first one included,
\* keeps its characters and its indentation, and interior blank lines are
\* kept. (Blanks at the very end of the body are not looked at here.)
C23_OnlyBlankLinesTrimmed ==
  \A i \in BlockUnits :
    RStrip(StoredBody(cells[i])) = RStrip(TrimBlankLines(MatchOf(i).body))

----------------------------------------------------------------------------
\* Fence matching.

\* The offset where the body of a match begins: after the opening fence, the
\* tag and the newline.
BodyStart(m) == m.start + Len(FENCE) + Len(m.language) + 1

\* The gaps the matches leave: from the end of each match to the start of
\* the next one, and from the end of the last match to the end of the
\* document.
Gaps ==
  {[from |-> IF k = 0 THEN 0 ELSE matches[k].end,
    to |-> IF k = Len(matches) THEN Len(content) ELSE matches[k + 1].start] :
     k \in 0..Len(matches)}

\* C24: fence matching is left to right, non-overlapping and non-greedy. Each
\* block ends at the first triple backtick after its opening line, so no
\* stored body holds a triple backtick; each match starts at or after the
\* end of the previous one; the text after a block is scanned again: it
\* holds no further match that was skipped, and when not blank it is emitted
\* as prose.
C24_FirstClosingFenceWins ==
  /\ \A k \in 1..Len(matches) :
       LET m == matches[k]
       IN /\ StartsWithAt(content, FENCE, m.start)
          /\ content[BodyStart(m)] = "\n"
          /\ Slice(content, BodyStart(m), m.end - Len(FENCE)) = m.body
          /\ StartsWithAt(content, FENCE, m.end - Len(FENCE))
          /\ ~Contains(m.body, FENCE)
          /\ \A j \in BodyStart(m)..(m.end - Len(FENCE) - 1) : ~StartsWithAt(content, FENCE, j)
          /\ k > 1 => matches[k - 1].end <= m.start
  /\ \A i \in BlockUnits : ~Contains(StoredBody(cells[i]), FENCE)
  /\ pc = "parsed" =>
       \A g \in Gaps :
         /\ \A j \in g.from..(g.to - 1) : ~MatchesAt(content, j)
         /\ Strip(Slice(content, g.from, g.to)) # <<>> =>
              \E i \in ProseUnits :
                /\ origin[i].from = g.from
                /\ origin[i].to = g.to
                /\ UnitText(cells[i]) = Append(Strip(Slice(content, g.from, g.to)), "\n")

\* A block, prose after it, and a further block found in the text after it.
C24_Witness ==
  /\ pc = "parsed"
  /\ Len(matches) = 2
  /\ Len(cells) = 3
  /\ origin[2].block = 0
  /\ origin[2].from = matches[1].end
  /\ origin[2].to = matches[2].start
  /\ origin[3].block = 2

----------------------------------------------------------------------------
\* The fenced blocks of a document, read line by line.

\* The blocks of the lines from offset off on: a line that begins with a
\* triple backtick opens a block (the rest of the line is its info string),
\* the next line that is a triple backtick alone closes it. open is the
\* offset of the opening fence of the block the lines are in, -1 outside.
RECURSIVE BlocksOfLines(_, _, _)
BlocksOfLines(lines, off, open) ==
  IF lines = <<>> THEN {}
  ELSE LET line == Head(lines)
           next == off + Len(line) + 1
       IN IF open < 0
          THEN BlocksOfLines(Tail(lines), next, IF StartsWith(line, FENCE) THEN off ELSE -1)
          ELSE IF line = FENCE
          THEN {[open |-> open, close |-> off]} \cup BlocksOfLines(Tail(lines), next, -1)
          ELSE BlocksOfLines(Tail(lines), next, open)
DocumentBlocks == BlocksOfLines(Split(content), 0, -1)

\* C25: in a document of well-formed fenced blocks every block the scanner
\* yields starts at an opening fence of the document and ends at that
\* block's closing fence, whatever the info string of the opening fence; a
\* closing fence is never taken as an opening one, so prose between two
\* blocks is never a body.
C25_YieldsDocumentBlocks ==
  \A k \in 1..Len(matches) :
    \E b \in DocumentBlocks :
      /\ matches[k].start = b.open
      /\ matches[k].end = b.close + Len(FENCE)

----------------------------------------------------------------------------
\* The names the rewriter introduces.

\* C26: every name the rewriter introduces into a Code unit is bound before
\* it is used in that unit: whenever the line `obj = requests` is prepended,
\* a line `import requests` (synthesized or from the body) stands before it.
C26_RequestsBoundBeforeObj ==
  \A i \in BlockUnits :
    Kind(cells[i]) = "Code" =>
      \A k \in 1..Len(cells[i].source) :
        cells[i].source[k] = s_obj_line =>
          \E j \in 1..(k - 1) : StartsWith(Strip(cells[i].source[j]), s_import_requests)

====
